---- MODULE Spec2Model ----
(***************************************************************************)
(* Model of the authentication and session core of file-upload-mgr:        *)
(*   utils.go     hashPwd, verifyPwd, buildToken, validateToken            *)
(*   services.go  findUserByEmail, registerUser, authenticate,             *)
(*                saveSession, findSessionByID, findSessions               *)
(*   config.go    the GraphQL resolvers that call them                     *)
(*                                                                         *)
(* Strings that the code inspects character by character (the              *)
(* Authorization header) are sequences of symbols.  A symbol is a          *)
(* character [c |-> "B"] or a base64url segment [seg |-> payload]: a       *)
(* segment never contains a space or a dot, so no occurrence of "Bearer "  *)
(* or "." can begin or end inside one.  The keyed hashes (HMAC-SHA256,     *)
(* bcrypt) are ideal: the digest is a record of what was hashed.           *)
(* Time is counted in minutes.                                             *)
(***************************************************************************)
EXTENDS Integers, Sequences, FiniteSets, TLC

VARIABLES
    now,        \* the wall clock read by time.Now()
    users,      \* the users table: email -> user record
    sessions,   \* the sessions table: <<id, email>> -> session record
    uuids,      \* how many UUIDs uuid.NewV4() has handed out
    issued,     \* the last buildToken call: its arguments, time and outcome
    call,       \* the last completed operation: its input, outcome and store accesses
    ghost       \* history the claims refer to (never read by the operations)

vars == <<now, users, sessions, uuids, issued, call, ghost>>

-----------------------------------------------------------------------------
(* Bounds of the model *)

MaxTime == 4
MaxTTL == 2

Emails == {"a@x.com", "b@x.com"}
Pwds == {"secret", "wrong"}
Secrets == {<<>>, <<"k1">>, <<"k2">>}
Salts == {"s1", "s2"}

-----------------------------------------------------------------------------
(* Strings as sequences of symbols *)

Ch(c) == [c |-> c]
Seg(p) == [seg |-> p]
IsSeg(sym) == "seg" \in DOMAIN sym

Str(chars) == [i \in 1..Len(chars) |-> Ch(chars[i])]

\* strings.HasPrefix
HasPrefix(s, prefix) ==
    /\ Len(s) >= Len(prefix)
    /\ SubSeq(s, 1, Len(prefix)) = prefix

\* strings.Replace(s, old, "", -1): every non-overlapping occurrence of old,
\* scanning from the left, is removed (old is not empty).
RECURSIVE RemoveAll(_, _)
RemoveAll(s, old) ==
    IF Len(s) < Len(old) THEN s
    ELSE IF SubSeq(s, 1, Len(old)) = old
         THEN RemoveAll(SubSeq(s, Len(old) + 1, Len(s)), old)
         ELSE <<s[1]>> \o RemoveAll(Tail(s), old)

\* strings.Split(s, "."): the parts between the dots
RECURSIVE SplitDots(_, _)
SplitDots(s, cur) ==
    IF s = <<>> THEN <<cur>>
    ELSE IF s[1] = Ch(".")
         THEN <<cur>> \o SplitDots(Tail(s), <<>>)
         ELSE SplitDots(Tail(s), Append(cur, s[1]))

bearerTokenKey == Str(<<"B", "e", "a", "r", "e", "r", " ">>)

-----------------------------------------------------------------------------
(* JSON values and the JWT of github.com/dgrijalva/jwt-go *)

JStr(s) == [s |-> s]
JNum(n) == [n |-> n]
IsJStr(v) == "s" \in DOMAIN v

\* jwt.NewWithClaims(jwt.SigningMethodHS256, claims).Header
HS256Header == [typ |-> JStr("JWT"), alg |-> JStr("HS256")]

\* HMAC-SHA256 of the signing string "b64(header).b64(claims)" under key
HMAC(key, hdr, claims) == [key |-> key, hdr |-> hdr, claims |-> claims]

\* token.SignedString(key) for the HMAC methods: never fails for a []byte key,
\* the empty key included
SignedString(hdr, claims, key) ==
    <<Seg(hdr), Ch("."), Seg(claims), Ch("."), Seg(HMAC(key, hdr, claims))>>

HMACMethods == {"HS256", "HS384", "HS512"}
KnownMethods == HMACMethods \cup {"none", "RS256", "ES256"}

\* MapClaims.Valid() at time t: a numeric exp in the past is the one claim
\* check that the tokens of this model can fail
ClaimsExpired(claims, t) ==
    /\ "exp" \in DOMAIN claims
    /\ ~IsJStr(claims["exp"])
    /\ claims["exp"].n # 0
    /\ t > claims["exp"].n

\* jwt.Parse(t, keyFunc) with the keyFunc of validateToken, which hands out
\* jwtSecret for the HMAC methods only.  The result is the error text of the
\* ValidationError ("" when nil) and the claims of the parsed token.
jwtParse(t, jwtSecret, at) ==
    LET parts == SplitDots(t, <<>>)
        none == [err |-> "", claims |-> <<>>, valid |-> FALSE]
    IN  IF Len(parts) # 3
        THEN [none EXCEPT !.err = "token contains an invalid number of segments"]
        ELSE IF \E i \in 1..2 : Len(parts[i]) # 1 \/ ~IsSeg(parts[i][1])
        THEN [none EXCEPT !.err = "token is malformed"]
        ELSE LET hdr == parts[1][1].seg
                 claims == parts[2][1].seg
             IN  IF "alg" \notin DOMAIN hdr \/ ~IsJStr(hdr["alg"])
                 THEN [none EXCEPT !.err = "signing method (alg) is unspecified."]
                 ELSE IF hdr["alg"].s \notin KnownMethods
                 THEN [none EXCEPT !.err = "signing method (alg) is unavailable."]
                 ELSE IF hdr["alg"].s \notin HMACMethods
                 THEN [none EXCEPT !.err =
                        "there was an parsing the given token. please validate the token is for this service"]
                 ELSE IF \/ Len(parts[3]) # 1
                         \/ ~IsSeg(parts[3][1])
                         \/ parts[3][1].seg # HMAC(jwtSecret, hdr, claims)
                 THEN [none EXCEPT !.err = "signature is invalid", !.claims = claims]
                 ELSE IF ClaimsExpired(claims, at)
                 THEN [none EXCEPT !.err = "Token is expired", !.claims = claims]
                 ELSE [err |-> "", claims |-> claims, valid |-> TRUE]

JwtErrors == {
    "token contains an invalid number of segments",
    "token is malformed",
    "signing method (alg) is unspecified.",
    "signing method (alg) is unavailable.",
    "there was an parsing the given token. please validate the token is for this service",
    "signature is invalid",
    "Token is expired" }

-----------------------------------------------------------------------------
(* utils.go *)

\* A Go pointer result: <<>> is nil, <<v>> points to v
Nil == <<>>
Ptr(v) == <<v>>

\* bcrypt.GenerateFromPassword(pwd, DefaultCost) with the salt it drew
hashPwd(pwd, salt) == [bcrypt |-> pwd, salt |-> salt, cost |-> 10]

\* verifyPwd that drops the result of the comparison
verifyPwd_AlwaysTrue(hashedPwd, pwd) == "bcrypt" \in DOMAIN hashedPwd

\* bcrypt.CompareHashAndPassword(hashedPwd, pwd) = nil
verifyPwd(hashedPwd, pwd) ==
    /\ "bcrypt" \in DOMAIN hashedPwd
    /\ hashPwd(pwd, hashedPwd.salt) = hashedPwd

\* buildToken as the earlier revision signed it: the identity under the "id" key
buildToken_IdClaim(email, jwtSecret, tokenExpiryMin, t) ==
    [token |-> Ptr(SignedString(HS256Header, [id |-> JStr(email)], jwtSecret)),
     expiry |-> Ptr(t + tokenExpiryMin), err |-> ""]

\* buildToken(email, jwtSecret, tokenExpiryMin) called at time t
buildToken(email, jwtSecret, tokenExpiryMin, t) ==
    LET signedToken == SignedString(HS256Header, [email |-> JStr(email)], jwtSecret)
        nowPlusExpiryTimestamp == t + tokenExpiryMin
    IN  [token |-> Ptr(signedToken), expiry |-> Ptr(nowPlusExpiryTimestamp), err |-> ""]

\* An Authorization header value as validateToken receives it: an interface
\* value that is nil or holds a string
NilHeader == [isNil |-> TRUE, s |-> <<>>]
StrHeader(s) == [isNil |-> FALSE, s |-> s]

\* mapstructure.Decode(claims, &map[string]string): fails on a value that is
\* not a string
DecodeFails(claims) == \E k \in DOMAIN claims : ~IsJStr(claims[k])

\* validateToken without the "if err != nil" after jwt.Parse
validateToken_NoParseErrCheck(authHeader, jwtSecret, t) ==
    IF authHeader.isNil \/ authHeader.s = <<>>
    THEN [email |-> Nil, err |-> "no valid Authorization token in request"]
    ELSE IF ~HasPrefix(authHeader.s, bearerTokenKey)
    THEN [email |-> Nil, err |-> "authorization token is not valid Bearer token"]
    ELSE LET parsed == jwtParse(RemoveAll(authHeader.s, bearerTokenKey), jwtSecret, t)
         IN  IF DecodeFails(parsed.claims)
             THEN [email |-> Nil, err |-> "expected type 'string'"]
             ELSE [email |-> Ptr(IF "email" \in DOMAIN parsed.claims
                                 THEN parsed.claims["email"].s
                                 ELSE ""),
                   err |-> ""]

\* validateToken without the 'if header == ""' check
validateToken_NoEmptyCheck(authHeader, jwtSecret, t) ==
    IF authHeader.isNil
    THEN [email |-> Nil, err |-> "no valid Authorization token in request"]
    ELSE IF ~HasPrefix(authHeader.s, bearerTokenKey)
    THEN [email |-> Nil, err |-> "authorization token is not valid Bearer token"]
    ELSE LET tk == RemoveAll(authHeader.s, bearerTokenKey)
             parsed == jwtParse(tk, jwtSecret, t)
         IN  IF parsed.err # ""
             THEN [email |-> Nil, err |-> parsed.err]
             ELSE IF parsed.valid
             THEN IF DecodeFails(parsed.claims)
                  THEN [email |-> Nil, err |-> "expected type 'string'"]
                  ELSE [email |-> Ptr(IF "email" \in DOMAIN parsed.claims
                                      THEN parsed.claims["email"].s
                                      ELSE ""),
                        err |-> ""]
             ELSE [email |-> Nil, err |-> "invalid authorization token"]

\* validateToken without the strings.HasPrefix check
validateToken_NoSchemeCheck(authHeader, jwtSecret, t) ==
    IF authHeader.isNil
    THEN [email |-> Nil, err |-> "no valid Authorization token in request"]
    ELSE IF authHeader.s = <<>>
    THEN [email |-> Nil, err |-> "no valid Authorization token in request"]
    ELSE LET tk == RemoveAll(authHeader.s, bearerTokenKey)
             parsed == jwtParse(tk, jwtSecret, t)
         IN  IF parsed.err # ""
             THEN [email |-> Nil, err |-> parsed.err]
             ELSE IF parsed.valid
             THEN IF DecodeFails(parsed.claims)
                  THEN [email |-> Nil, err |-> "expected type 'string'"]
                  ELSE [email |-> Ptr(IF "email" \in DOMAIN parsed.claims
                                      THEN parsed.claims["email"].s
                                      ELSE ""),
                        err |-> ""]
             ELSE [email |-> Nil, err |-> "invalid authorization token"]

\* validateToken(authHeader, jwtSecret, logger) called at time t
validateToken(authHeader, jwtSecret, t) ==
    IF authHeader.isNil
    THEN [email |-> Nil, err |-> "no valid Authorization token in request"]
    ELSE IF authHeader.s = <<>>
    THEN [email |-> Nil, err |-> "no valid Authorization token in request"]
    ELSE IF ~HasPrefix(authHeader.s, bearerTokenKey)
    THEN [email |-> Nil, err |-> "authorization token is not valid Bearer token"]
    ELSE LET tk == RemoveAll(authHeader.s, bearerTokenKey)
             parsed == jwtParse(tk, jwtSecret, t)
         IN  IF parsed.err # ""
             THEN [email |-> Nil, err |-> parsed.err]
             ELSE IF parsed.valid
             THEN IF DecodeFails(parsed.claims)
                  THEN [email |-> Nil, err |-> "expected type 'string'"]
                  ELSE [email |-> Ptr(IF "email" \in DOMAIN parsed.claims
                                      THEN parsed.claims["email"].s
                                      ELSE ""),
                        err |-> ""]
             ELSE [email |-> Nil, err |-> "invalid authorization token"]

-----------------------------------------------------------------------------
(* The DynamoDB tables (template.yml) and the requests the code sends *)

EmptyTable == <<>>

\* KeySchema of UsersTable: email is the HASH key
UserKey(item) == item.email

\* KeySchema of SessionsTable: id is the HASH key, email the RANGE key
SessionKey(item) == <<item.id, item.email>>

\* GetItemRequest(...).Send(): a transport error, or the item under the key
\* (an empty Item when there is none)
GetItem(table, key, dbErr) ==
    IF dbErr THEN [err |-> "RequestError", Item |-> Nil]
    ELSE IF key \in DOMAIN table THEN [err |-> "", Item |-> Ptr(table[key])]
    ELSE [err |-> "", Item |-> Nil]

\* A put that writes field by field: the name of a stored item stays
putItem_Merge(item, key, table, dbErr) ==
    IF dbErr THEN [err |-> "RequestError", table |-> table]
    ELSE [err |-> "",
          table |-> [k \in DOMAIN table \cup {key} |->
                        IF k # key THEN table[k]
                        ELSE IF key \in DOMAIN table
                        THEN [item EXCEPT !.name = table[key].name]
                        ELSE item]]

\* putItem(item, tableName, dbAPI, logger): PutItem replaces the item under
\* the item's key, or fails and changes nothing
putItem(item, key, table, dbErr) ==
    IF dbErr THEN [err |-> "RequestError", table |-> table]
    ELSE [err |-> "",
          table |-> [k \in DOMAIN table \cup {key} |-> IF k = key THEN item ELSE table[k]]]

-----------------------------------------------------------------------------
(* entities.go and services.go: users *)

\* dynamodbattribute.MarshalMap(user): attributes named by the json tags
MarshalUser(u) ==
    [email |-> u.Email, pwd |-> u.Pwd, name |-> u.Name, role |-> u.Role,
     meta |-> [meta__created_at |-> u.Meta.MetaCreatedAt,
               meta__updated_at |-> u.Meta.MetaUpdatedAt,
               meta__is_active |-> u.Meta.MetaIsActive]]

\* dynamodbattribute.UnmarshalMap(item, &user)
UnmarshalUser(item) ==
    [Email |-> item.email, Pwd |-> item.pwd, Name |-> item.name, Role |-> item.role,
     Meta |-> [MetaCreatedAt |-> item.meta.meta__created_at,
               MetaUpdatedAt |-> item.meta.meta__updated_at,
               MetaIsActive |-> item.meta.meta__is_active]]

NilDeref == "runtime error: invalid memory address or nil pointer dereference"

\* findUserByEmail(email, usersTableName, dbAPI, logger).  panic is "" when
\* the call returns; reads counts the requests sent to the table.
findUserByEmail(email, table, dbErr) ==
    LET output == GetItem(table, email, dbErr)
    IN  IF output.err # ""
        THEN [user |-> Nil, err |-> output.err, panic |-> "", reads |-> 1]
        ELSE IF output.Item = Nil
        THEN \* the log statement evaluates err.Error() with err = nil
             [user |-> Nil, err |-> "", panic |-> NilDeref, reads |-> 1]
        ELSE [user |-> Ptr(UnmarshalUser(output.Item[1])), err |-> "",
              panic |-> "", reads |-> 1]

\* registerUser with a uniqueness check the code does not make
registerUser_IfAbsent(email, pwd, name, role, table, salt, fault, t) ==
    LET user == [Email |-> email, Name |-> name, Role |-> role,
                 Pwd |-> hashPwd(pwd, salt),
                 Meta |-> [MetaCreatedAt |-> Ptr(t), MetaUpdatedAt |-> Ptr(t),
                           MetaIsActive |-> Ptr(TRUE)]]
    IN  IF fault # "none" \/ email \in DOMAIN table
        THEN [user |-> Nil, err |-> "ConditionalCheckFailed", table |-> table, writes |-> 0]
        ELSE [user |-> Ptr(user), err |-> "",
              table |-> putItem(MarshalUser(user), email, table, FALSE).table,
              writes |-> 1]

\* registerUser(email, pwd, name, role, usersTableName, dbAPI, logger) called
\* at time t; salt is what bcrypt drew, fault the step that fails, if any
registerUser(email, pwd, name, role, table, salt, fault, t) ==
    IF fault = "hash"
    THEN [user |-> Nil, err |-> "HashingError", table |-> table, writes |-> 0]
    ELSE LET hashed == hashPwd(pwd, salt)
             user == [Email |-> email, Name |-> name, Role |-> role, Pwd |-> hashed,
                      Meta |-> [MetaCreatedAt |-> Ptr(t), MetaUpdatedAt |-> Ptr(t),
                                MetaIsActive |-> Ptr(TRUE)]]
             userMap == MarshalUser(user)
             put == putItem(userMap, UserKey(userMap), table, fault = "put")
         IN  IF fault = "marshal"
             THEN [user |-> Nil, err |-> "MarshalError", table |-> table, writes |-> 0]
             ELSE IF put.err # ""
             THEN [user |-> Nil, err |-> put.err, table |-> put.table, writes |-> 1]
             ELSE [user |-> Ptr(user), err |-> "", table |-> put.table, writes |-> 1]

NotFoundMessage ==
    "Unable to find a record with the given email. Please Verify your email and try again"
MismatchMessage ==
    "The password submitted does not match this users password. Please check the email and password and try again"

\* The zero value of auth
ZeroAuth == [Success |-> FALSE, Message |-> "", Token |-> <<>>, ExpiresAt |-> 0, User |-> Nil]

\* authenticate that builds the token before it verifies the password and
\* leaves it in the result of a mismatch
authenticate_TokenOnMismatch(email, pwd, table, jwtSecret, tokenExpiryMin, dbErr, t) ==
    LET found == findUserByEmail(email, table, dbErr)
    IN  IF found.panic # ""
        THEN [panic |-> found.panic, auth |-> Nil, reads |-> found.reads]
        ELSE IF found.err # ""
        THEN [panic |-> "", reads |-> found.reads,
              auth |-> Ptr([ZeroAuth EXCEPT !.Message = NotFoundMessage])]
        ELSE LET built == buildToken(found.user[1].Email, jwtSecret, tokenExpiryMin, t)
             IN  IF ~verifyPwd(found.user[1].Pwd, pwd)
                 THEN [panic |-> "", reads |-> found.reads,
                       auth |-> Ptr([ZeroAuth EXCEPT !.Message = MismatchMessage,
                                                     !.Token = built.token[1]])]
                 ELSE [panic |-> "", reads |-> found.reads,
                       auth |-> Ptr([Success |-> TRUE, Message |-> "",
                                     Token |-> built.token[1],
                                     ExpiresAt |-> built.expiry[1],
                                     User |-> found.user])]

\* authenticate(email, pwd, usersTableName, jwtSecret, tokenExpiryMin, dbAPI,
\* logger) called at time t.  A panic leaves no auth result.
authenticate(email, pwd, table, jwtSecret, tokenExpiryMin, dbErr, t) ==
    LET found == findUserByEmail(email, table, dbErr)
    IN  IF found.panic # ""
        THEN [panic |-> found.panic, auth |-> Nil, reads |-> found.reads]
        ELSE IF found.err # ""
        THEN [panic |-> "", reads |-> found.reads,
              auth |-> Ptr([ZeroAuth EXCEPT !.Message = NotFoundMessage])]
        ELSE IF ~verifyPwd(found.user[1].Pwd, pwd)
        THEN [panic |-> "", reads |-> found.reads,
              auth |-> Ptr([ZeroAuth EXCEPT !.Message = MismatchMessage])]
        ELSE LET built == buildToken(found.user[1].Email, jwtSecret, tokenExpiryMin, t)
             IN  IF built.err # ""
                 THEN [panic |-> "", reads |-> found.reads,
                       auth |-> Ptr([ZeroAuth EXCEPT !.Message = built.err])]
                 ELSE [panic |-> "", reads |-> found.reads,
                       auth |-> Ptr([Success |-> TRUE, Message |-> "",
                                     Token |-> built.token[1],
                                     ExpiresAt |-> built.expiry[1],
                                     User |-> found.user])]

-----------------------------------------------------------------------------
(* entities.go and services.go: sessions.  Of the fields of session the     *)
(* model keeps ID, Email, Name, Status and Meta; the description and the    *)
(* dates are carried from input to item the way Name is.                    *)

\* uuid.NewV4() followed by id.String(): the n-th UUID drawn, as a string
UUIDString(n) == <<n>>

\* uuid.Nil.String(), what "id, _ := uuid.NewV4()" leaves in id on an error
NilUUIDString == UUIDString(0)

\* dynamodbattribute.MarshalMap(sess) for a session whose ID is set: a nil
\* Meta becomes a NULL attribute
MarshalSession(sess) ==
    [id |-> sess.ID[1], email |-> sess.Email, name |-> sess.Name, status |-> sess.Status,
     meta |-> IF sess.Meta = Nil THEN Nil
              ELSE Ptr([meta__created_at |-> sess.Meta[1].MetaCreatedAt,
                        meta__updated_at |-> sess.Meta[1].MetaUpdatedAt,
                        meta__is_active |-> sess.Meta[1].MetaIsActive])]

\* dynamodbattribute.UnmarshalMap(item, &sess)
UnmarshalSession(item) ==
    [ID |-> Ptr(item.id), Email |-> item.email, Name |-> item.name, Status |-> item.status,
     Meta |-> IF item.meta = Nil THEN Nil
              ELSE Ptr([MetaCreatedAt |-> item.meta[1].meta__created_at,
                        MetaUpdatedAt |-> item.meta[1].meta__updated_at,
                        MetaIsActive |-> item.meta[1].meta__is_active])]

\* saveSession that stamps the whole metadata block on every save
saveSession_Restamp(sess, table, uuidCount, fault, t) ==
    LET stamped == [sess EXCEPT
                      !.ID = IF sess.ID = Nil THEN Ptr(UUIDString(uuidCount + 1)) ELSE @,
                      !.Meta = Ptr([MetaCreatedAt |-> Ptr(t), MetaUpdatedAt |-> Ptr(t),
                                    MetaIsActive |-> Ptr(TRUE)])]
        sessMap == MarshalSession(stamped)
    IN  [sess |-> Ptr(stamped), err |-> "", panic |-> "",
         table |-> putItem(sessMap, SessionKey(sessMap), table, FALSE).table,
         writes |-> 1, drew |-> sess.ID = Nil]

\* saveSession that leaves the caller's is-active in a session with an id
saveSession_KeepActive(sess, table, uuidCount, fault, t) ==
    IF sess.ID # Nil /\ sess.Meta = Nil
    THEN [sess |-> Nil, err |-> "", panic |-> NilDeref, table |-> table,
          writes |-> 0, drew |-> FALSE]
    ELSE LET stamped ==
                IF sess.ID = Nil
                THEN [sess EXCEPT !.ID = Ptr(UUIDString(uuidCount + 1)),
                                  !.Meta = Ptr([MetaCreatedAt |-> Ptr(t),
                                                MetaUpdatedAt |-> Ptr(t),
                                                MetaIsActive |-> Ptr(TRUE)])]
                ELSE [sess EXCEPT !.Meta = Ptr([sess.Meta[1] EXCEPT
                                                  !.MetaUpdatedAt = Ptr(t)])]
             sessMap == MarshalSession(stamped)
         IN  [sess |-> Ptr(stamped), err |-> "", panic |-> "",
              table |-> putItem(sessMap, SessionKey(sessMap), table, FALSE).table,
              writes |-> 1, drew |-> sess.ID = Nil]

\* saveSession that puts the item although MarshalMap reported an error
saveSession_PutOnMarshalError(sess, table, uuidCount, fault, t) ==
    IF sess.ID # Nil /\ sess.Meta = Nil
    THEN [sess |-> Nil, err |-> "", panic |-> NilDeref, table |-> table,
          writes |-> 0, drew |-> FALSE]
    ELSE LET stamped ==
                IF sess.ID = Nil
                THEN [sess EXCEPT !.ID = Ptr(UUIDString(uuidCount + 1)),
                                  !.Meta = Ptr([MetaCreatedAt |-> Ptr(t),
                                                MetaUpdatedAt |-> Ptr(t),
                                                MetaIsActive |-> Ptr(TRUE)])]
                ELSE [sess EXCEPT !.Meta = Ptr([sess.Meta[1] EXCEPT
                                                  !.MetaUpdatedAt = Ptr(t),
                                                  !.MetaIsActive = Ptr(TRUE)])]
             sessMap == MarshalSession(stamped)
         IN  [sess |-> IF fault = "marshal" THEN Nil ELSE Ptr(stamped),
              err |-> IF fault = "marshal" THEN "MarshalError" ELSE "", panic |-> "",
              table |-> putItem(sessMap, SessionKey(sessMap), table, FALSE).table,
              writes |-> 1, drew |-> sess.ID = Nil]

\* saveSession(sess, sessionTableName, dbAPI, logger) called at time t, after
\* uuidCount UUIDs were drawn; fault is the step that fails, if any.  drew
\* tells whether a UUID was drawn.
saveSession(sess, table, uuidCount, fault, t) ==
    IF sess.ID # Nil /\ sess.Meta = Nil
    THEN \* sess.Meta.MetaUpdatedAt = &now with sess.Meta = nil
         [sess |-> Nil, err |-> "", panic |-> NilDeref, table |-> table,
          writes |-> 0, drew |-> FALSE]
    ELSE LET idVal == IF fault = "uuid" THEN NilUUIDString ELSE UUIDString(uuidCount + 1)
             stamped ==
                IF sess.ID = Nil
                THEN [sess EXCEPT !.ID = Ptr(idVal),
                                  !.Meta = Ptr([MetaCreatedAt |-> Ptr(t),
                                                MetaUpdatedAt |-> Ptr(t),
                                                MetaIsActive |-> Ptr(TRUE)])]
                ELSE [sess EXCEPT !.Meta = Ptr([sess.Meta[1] EXCEPT
                                                  !.MetaUpdatedAt = Ptr(t),
                                                  !.MetaIsActive = Ptr(TRUE)])]
             drew == sess.ID = Nil /\ fault # "uuid"
             sessMap == MarshalSession(stamped)
             put == putItem(sessMap, SessionKey(sessMap), table, fault = "put")
         IN  IF fault = "marshal"
             THEN [sess |-> Nil, err |-> "MarshalError", panic |-> "", table |-> table,
                   writes |-> 0, drew |-> drew]
             ELSE IF put.err # ""
             THEN [sess |-> Nil, err |-> put.err, panic |-> "", table |-> put.table,
                   writes |-> 1, drew |-> drew]
             ELSE [sess |-> Ptr(stamped), err |-> "", panic |-> "", table |-> put.table,
                   writes |-> 1, drew |-> drew]

\* findSessionByID(id, email, sessionTableName, dbAPI, logger)
findSessionByID(id, email, table, dbErr) ==
    LET output == GetItem(table, <<id, email>>, dbErr)
    IN  IF output.err # "" \/ output.Item = Nil
        THEN [sess |-> Nil, err |-> output.err, reads |-> 1]
        ELSE [sess |-> Ptr(UnmarshalSession(output.Item[1])), err |-> "", reads |-> 1]

\* The keys of a table in the order a Query returns them
RECURSIVE KeysInOrder(_)
KeysInOrder(keys) ==
    IF keys = {} THEN <<>>
    ELSE LET k == CHOOSE x \in keys : \A y \in keys : x[1][1] <= y[1][1]
         IN  <<k>> \o KeysInOrder(keys \ {k})

\* QueryRequest(...).Send() on the sessions table.  DynamoDB answers a Query
\* whose key conditions lack an equality on the HASH key ("id") with a
\* ValidationException.
Query(table, keyConditions, dbErr) ==
    IF dbErr THEN [err |-> "RequestError", Count |-> 0, Items |-> <<>>]
    ELSE IF "id" \notin DOMAIN keyConditions
    THEN [err |-> "ValidationException: Query condition missed key schema element: id",
          Count |-> 0, Items |-> <<>>]
    ELSE LET keys == {k \in DOMAIN table :
                        \A attr \in DOMAIN keyConditions : table[k][attr] = keyConditions[attr]}
             order == KeysInOrder(keys)
         IN  [err |-> "", Count |-> Len(order),
              Items |-> [i \in 1..Len(order) |-> table[order[i]]]]

\* findSessions(email, sessionTableName, dbAPI, logger): the result slice is
\* made with Count nil elements and the decoded sessions are appended to it
findSessions(email, table, dbErr) ==
    LET output == Query(table, [email |-> email], dbErr)
    IN  IF output.err # ""
        THEN [sessions |-> <<>>, err |-> output.err, reads |-> 1]
        ELSE IF output.Count = 0
        THEN [sessions |-> <<>>, err |-> "", reads |-> 1]
        ELSE [sessions |-> [i \in 1..output.Count |-> Nil]
                            \o [i \in 1..Len(output.Items) |->
                                    Ptr(UnmarshalSession(output.Items[i]))],
              err |-> "", reads |-> 1]

-----------------------------------------------------------------------------
(* config.go: the resolvers of the root query and the root mutation.  c is  *)
(* the conf that init() filled; header is the Authorization value that      *)
(* Handler put into the context.                                            *)

\* The "getAuthUser" resolver
getAuthUser(header, c, usersTable, dbErr, t) ==
    LET valid == validateToken(header, c.jwtSecret, t)
    IN  IF valid.err # ""
        THEN [value |-> Nil, err |-> valid.err, panic |-> "", reads |-> 0, writes |-> 0]
        ELSE LET found == findUserByEmail(valid.email[1], usersTable, dbErr)
             IN  [value |-> found.user, err |-> found.err, panic |-> found.panic,
                  reads |-> found.reads, writes |-> 0]

\* A getSession that looks the session up by its id alone
getSession_AnyOwner(header, id, c, sessionsTable, dbErr, t) ==
    LET valid == validateToken(header, c.jwtSecret, t)
        keys == {k \in DOMAIN sessionsTable : k[1] = id}
    IN  IF valid.err # ""
        THEN [value |-> Nil, err |-> valid.err, panic |-> "", reads |-> 0, writes |-> 0]
        ELSE IF dbErr
        THEN [value |-> Nil, err |-> "RequestError", panic |-> "", reads |-> 1, writes |-> 0]
        ELSE [value |-> IF keys = {} THEN Nil
                        ELSE Ptr(UnmarshalSession(sessionsTable[CHOOSE k \in keys : TRUE])),
              err |-> "", panic |-> "", reads |-> 1, writes |-> 0]

\* The "getSession" resolver
getSession(header, id, c, sessionsTable, dbErr, t) ==
    LET valid == validateToken(header, c.jwtSecret, t)
    IN  IF valid.err # ""
        THEN [value |-> Nil, err |-> valid.err, panic |-> "", reads |-> 0, writes |-> 0]
        ELSE LET found == findSessionByID(id, valid.email[1], sessionsTable, dbErr)
             IN  [value |-> found.sess, err |-> found.err, panic |-> "",
                  reads |-> found.reads, writes |-> 0]

\* The "getSessions" resolver
getSessions(header, c, sessionsTable, dbErr, t) ==
    LET valid == validateToken(header, c.jwtSecret, t)
    IN  IF valid.err # ""
        THEN [value |-> <<>>, err |-> valid.err, panic |-> "", reads |-> 0, writes |-> 0]
        ELSE LET found == findSessions(valid.email[1], sessionsTable, dbErr)
             IN  [value |-> found.sessions, err |-> found.err, panic |-> "",
                  reads |-> found.reads, writes |-> 0]

\* mapstructure.Decode(sessMap, &s): SessionInput has no meta field, and a
\* field that the input leaves out stays nil
DecodeSessionInput(sessMap) ==
    [ID |-> IF "id" \in DOMAIN sessMap THEN Ptr(sessMap.id) ELSE Nil,
     Email |-> sessMap.email, Name |-> sessMap.name, Status |-> Ptr(sessMap.status),
     Meta |-> Nil]

\* The "saveSession" resolver: it does not look at the header
saveSessionMutation(header, sessMap, c, sessionsTable, uuidCount, fault, t) ==
    LET saved == saveSession(DecodeSessionInput(sessMap), sessionsTable, uuidCount, fault, t)
    IN  [value |-> saved.sess, err |-> saved.err, panic |-> saved.panic,
         reads |-> 0, writes |-> saved.writes, table |-> saved.table, drew |-> saved.drew]

-----------------------------------------------------------------------------
(* Initial state: empty tables, nothing issued, no operation run yet *)

NoIssue == [done |-> FALSE]
NoCall == [op |-> "none"]
NoGhost == [reg |-> <<>>, minted |-> <<>>, returned |-> {}]

\* The clock starts after the epoch: 0 is the zero value of a stored instant
Init ==
    /\ now = 1
    /\ users = EmptyTable
    /\ sessions = EmptyTable
    /\ uuids = 0
    /\ issued = NoIssue
    /\ call = NoCall
    /\ ghost = NoGhost

\* time.Now(): the reading is now, and the clock has moved on by the time the
\* caller reads it again (nanosecond resolution; successive readings of one
\* caller are apart by at least a store round trip)
ReadClock == now < MaxTime /\ now' = now + 1

\* Time passes between operations
Tick ==
    /\ now < MaxTime
    /\ now' = now + 1
    /\ UNCHANGED <<users, sessions, uuids, issued, call, ghost>>

-----------------------------------------------------------------------------
(* The token service on its own: buildToken and validateToken applied to   *)
(* headers a client can send                                               *)

\* Claim sets a holder of a signing secret can sign with the same library:
\* the email claim of buildToken, the "id" claim of the earlier buildToken
\* (utils.go lines 35-47), no claim at all, an email with a numeric exp
ClaimsSet ==
    {[email |-> JStr(e)] : e \in Emails}
    \cup { [id |-> JStr("u1")],
           <<>>,
           [email |-> JStr("a@x.com"), exp |-> JNum(1)] }

TokenClaims(tk) == tk[3].seg
TokenSig(tk) == tk[5].seg
WithClaims(tk, c) == [tk EXCEPT ![3] = Seg(c)]
WithSig(tk, sg) == [tk EXCEPT ![5] = sg]

\* A signed token whose claims segment was replaced after signing
ClaimsAltered(tk) == {WithClaims(tk, c) : c \in ClaimsSet \ {TokenClaims(tk)}}

\* A signed token whose signature segment was replaced after signing: by the
\* signature of another key, by the signature of other claims, or by junk
SigAltered(tk) ==
    {WithSig(tk, Seg(HMAC(k, HS256Header, TokenClaims(tk)))) :
        k \in Secrets \ {TokenSig(tk).key}}
    \cup {WithSig(tk, Seg(HMAC(TokenSig(tk).key, HS256Header, c))) :
        c \in ClaimsSet \ {TokenClaims(tk)}}
    \cup {WithSig(tk, Ch("x"))}

\* Other things a client can do with a token
Mangled(tk) ==
    { WithSig([tk EXCEPT ![1] = Seg([typ |-> JStr("JWT"), alg |-> JStr("none")])], Ch("x")),
      [tk EXCEPT ![1] = Seg([typ |-> JStr("JWT"), alg |-> JStr("RS256")])],
      [tk EXCEPT ![1] = Seg([typ |-> JStr("JWT")])],
      SubSeq(tk, 1, 3),
      SubSeq(tk, 1, 2) \o bearerTokenKey \o SubSeq(tk, 3, 5),
      Str(<<"a", "b", "c">>) }

BearerOf(tk) == StrHeader(bearerTokenKey \o tk)

\* The header values a client can send for a token
HeadersOf(tk) ==
    { BearerOf(tk),
      BearerOf(bearerTokenKey \o tk),
      StrHeader(tk),
      StrHeader(Str(<<"T", "o", "k", "e", "n", " ">>) \o tk),
      StrHeader(Str(<<"b", "e", "a", "r", "e", "r", " ">>) \o tk) }

NoTokenHeaders == {NilHeader, StrHeader(<<>>), StrHeader(bearerTokenKey)}

HeaderInputs(tk) ==
    NoTokenHeaders
    \cup HeadersOf(tk)
    \cup {BearerOf(m) : m \in Mangled(tk) \cup ClaimsAltered(tk) \cup SigAltered(tk)}

HeaderChoices == IF issued.done THEN HeaderInputs(issued.token) ELSE NoTokenHeaders

\* buildToken is called and the client keeps the token
BuildTokenCall(email, jwtSecret, tokenExpiryMin) ==
    LET res == buildToken(email, jwtSecret, tokenExpiryMin, now)
    IN  /\ ReadClock
        /\ issued' = [done |-> TRUE, by |-> "buildToken", email |-> email,
                      secret |-> jwtSecret, ttl |-> tokenExpiryMin, at |-> now,
                      token |-> res.token[1], expiry |-> res.expiry[1]]
        /\ call' = [op |-> "buildToken", res |-> res]
        /\ UNCHANGED <<users, sessions, uuids, ghost>>

\* Another holder of the secret signs claims of its own with the same library
\* and method, and the client keeps that token
SignCall(claims, jwtSecret) ==
    /\ issued' = [done |-> TRUE, by |-> "other", claims |-> claims, secret |-> jwtSecret,
                  token |-> SignedString(HS256Header, claims, jwtSecret)]
    /\ call' = [op |-> "sign"]
    /\ UNCHANGED <<now, users, sessions, uuids, ghost>>

\* validateToken is called with a header the client made of the token it keeps
ValidateTokenCall(authHeader, jwtSecret) ==
    /\ call' = [op |-> "validateToken", header |-> authHeader, secret |-> jwtSecret,
                at |-> now, res |-> validateToken(authHeader, jwtSecret, now)]
    /\ UNCHANGED <<now, users, sessions, uuids, issued, ghost>>

TokenNext ==
    \/ Tick
    \/ \E e \in Emails, s \in Secrets, ttl \in 0..MaxTTL : BuildTokenCall(e, s, ttl)
    \/ \E c \in ClaimsSet, s \in Secrets : SignCall(c, s)
    \/ \E h \in HeaderChoices, s \in Secrets : ValidateTokenCall(h, s)

TokenSpec == Init /\ [][TokenNext]_vars

-----------------------------------------------------------------------------
(* The user store and authentication: registerUser, findUserByEmail and     *)
(* authenticate called by a client, in any order                            *)

\* conf.init(): the secret and the token lifetime come from the environment,
\* as template.yml sets them or, when the variables are unset, empty and 0
Confs == { [jwtSecret |-> <<"k1">>, tokenExpiryMin |-> MaxTTL],
           [jwtSecret |-> <<>>, tokenExpiryMin |-> 0] }

Profiles == {[name |-> "A", role |-> "user"], [name |-> "B", role |-> "admin"]}
Faults == {"none", "hash", "marshal", "put"}

NoReg == [count |-> 0, prevPwd |-> "", lastPwd |-> ""]
RegOf(e) == IF e \in DOMAIN ghost.reg THEN ghost.reg[e] ELSE NoReg

\* History: how often e was registered with success (2 stands for more), and
\* the passwords of the last two registrations
NoteRegistered(e, pwd) ==
    LET old == RegOf(e)
        new == [count |-> IF old.count = 0 THEN 1 ELSE 2,
                prevPwd |-> old.lastPwd, lastPwd |-> pwd]
    IN  [ghost EXCEPT !.reg = [k \in DOMAIN ghost.reg \cup {e} |->
                                  IF k = e THEN new ELSE ghost.reg[k]]]

RegisterUserCall(email, pwd, profile, salt, fault) ==
    LET res == registerUser(email, pwd, profile.name, profile.role, users, salt, fault, now)
    IN  /\ IF fault = "hash" THEN UNCHANGED now ELSE ReadClock
        /\ users' = res.table
        /\ call' = [op |-> "registerUser", email |-> email, pwd |-> pwd,
                    name |-> profile.name, role |-> profile.role, fault |-> fault,
                    at |-> now, res |-> [user |-> res.user, err |-> res.err],
                    reads |-> 0, writes |-> res.writes]
        /\ ghost' = IF res.err = "" THEN NoteRegistered(email, pwd) ELSE ghost
        /\ UNCHANGED <<sessions, uuids, issued>>

FindUserByEmailCall(email, dbErr) ==
    LET res == findUserByEmail(email, users, dbErr)
    IN  /\ call' = [op |-> "findUserByEmail", email |-> email, dbErr |-> dbErr,
                    res |-> [user |-> res.user, err |-> res.err, panic |-> res.panic],
                    reads |-> res.reads, writes |-> 0]
        /\ UNCHANGED <<now, users, sessions, uuids, issued, ghost>>

AuthenticateCall(email, pwd, jwtSecret, tokenExpiryMin, dbErr) ==
    LET res == authenticate(email, pwd, users, jwtSecret, tokenExpiryMin, dbErr, now)
        issuedToken == res.auth # Nil /\ res.auth[1].Success
    IN  /\ IF issuedToken THEN ReadClock ELSE UNCHANGED now
        /\ call' = [op |-> "authenticate", email |-> email, pwd |-> pwd,
                    secret |-> jwtSecret, ttl |-> tokenExpiryMin, dbErr |-> dbErr,
                    at |-> now, res |-> [panic |-> res.panic, auth |-> res.auth],
                    reads |-> res.reads, writes |-> 0]
        /\ UNCHANGED <<users, sessions, uuids, issued, ghost>>

UsersNext ==
    \/ \E e \in Emails, p \in Pwds, pr \in Profiles, salt \in Salts, f \in Faults :
            RegisterUserCall(e, p, pr, salt, f)
    \/ \E e \in Emails, dbErr \in BOOLEAN : FindUserByEmailCall(e, dbErr)
    \/ \E e \in Emails, p \in Pwds, c \in Confs, dbErr \in BOOLEAN :
            AuthenticateCall(e, p, c.jwtSecret, c.tokenExpiryMin, dbErr)

UsersSpec == Init /\ [][UsersNext]_vars

-----------------------------------------------------------------------------
(* The session store: saveSession, findSessionByID and findSessions called  *)
(* by a client, in any order                                                *)

SaveFaults == {"none", "uuid", "marshal", "put"}

\* A session a client saves for the first time
NewSessions ==
    {[ID |-> Nil, Email |-> e, Name |-> "n1", Status |-> Ptr("open"), Meta |-> Nil] :
        e \in Emails}
    \cup {[ID |-> Nil, Email |-> "a@x.com", Name |-> "n1", Status |-> Ptr("open"),
           Meta |-> Ptr([MetaCreatedAt |-> Ptr(0), MetaUpdatedAt |-> Nil,
                         MetaIsActive |-> Ptr(FALSE)])]}

OtherEmail(e) == CHOOSE x \in Emails : x # e

\* What a client can send back of a session r it was handed: r itself, r
\* renamed, r without its metadata (the mutation's input has none), r with a
\* created-at of its own, r turned inactive, r under another owner
Resent(r) ==
    { r,
      [r EXCEPT !.Name = "n2"],
      [r EXCEPT !.Meta = Nil],
      [r EXCEPT !.Meta = Ptr([r.Meta[1] EXCEPT !.MetaCreatedAt = Ptr(0)])],
      [r EXCEPT !.Meta = Ptr([r.Meta[1] EXCEPT !.MetaCreatedAt = Nil])],
      [r EXCEPT !.Meta = Ptr([r.Meta[1] EXCEPT !.MetaIsActive = Ptr(FALSE)])],
      [r EXCEPT !.Email = OtherEmail(r.Email)] }

SessionInputs == NewSessions \cup UNION {Resent(r) : r \in ghost.returned}

\* History: the sessions handed back, and for every key the session handed
\* back by the last call that generated its identifier, with the time of
\* that call
NoteSaved(input, res) ==
    IF res.sess = Nil THEN ghost
    ELSE LET r == res.sess[1]
             k == <<r.ID[1], r.Email>>
         IN  [ghost EXCEPT
                !.returned = @ \cup {r},
                !.minted = IF input.ID # Nil THEN @
                           ELSE [x \in DOMAIN @ \cup {k} |->
                                    IF x = k THEN [sess |-> r, at |-> now] ELSE @[x]]]

SaveSessionCall(sess, fault) ==
    LET res == saveSession(sess, sessions, uuids, fault, now)
    IN  /\ ReadClock
        /\ sessions' = res.table
        /\ uuids' = IF res.drew THEN uuids + 1 ELSE uuids
        /\ call' = [op |-> "saveSession", input |-> sess, fault |-> fault, at |-> now,
                    res |-> [sess |-> res.sess, err |-> res.err, panic |-> res.panic],
                    reads |-> 0, writes |-> res.writes]
        /\ ghost' = NoteSaved(sess, res)
        /\ UNCHANGED <<users, issued>>

KnownIds == {k[1] : k \in DOMAIN sessions} \cup {NilUUIDString}

FindSessionByIDCall(id, email, dbErr) ==
    LET res == findSessionByID(id, email, sessions, dbErr)
    IN  /\ call' = [op |-> "findSessionByID", id |-> id, email |-> email, dbErr |-> dbErr,
                    res |-> [sess |-> res.sess, err |-> res.err],
                    reads |-> res.reads, writes |-> 0]
        /\ UNCHANGED <<now, users, sessions, uuids, issued, ghost>>

FindSessionsCall(email, dbErr) ==
    LET res == findSessions(email, sessions, dbErr)
    IN  /\ call' = [op |-> "findSessions", email |-> email, dbErr |-> dbErr,
                    res |-> [sessions |-> res.sessions, err |-> res.err],
                    reads |-> res.reads, writes |-> 0]
        /\ UNCHANGED <<now, users, sessions, uuids, issued, ghost>>

SessionsNext ==
    \/ \E sess \in SessionInputs, f \in SaveFaults : SaveSessionCall(sess, f)
    \/ \E id \in KnownIds, e \in Emails, dbErr \in BOOLEAN : FindSessionByIDCall(id, e, dbErr)
    \/ \E e \in Emails, dbErr \in BOOLEAN : FindSessionsCall(e, dbErr)

SessionsSpec == Init /\ [][SessionsNext]_vars

-----------------------------------------------------------------------------
(* The core as a whole: the operations on the users table, on the sessions  *)
(* table and on headers called by clients, in any order                     *)

\* The sessions saved here: new ones, and of a session handed back the
\* session itself, renamed, and turned inactive
CoreSessionInputs ==
    NewSessions
    \cup UNION {{ r,
                  [r EXCEPT !.Name = "n2"],
                  [r EXCEPT !.Meta = Ptr([r.Meta[1] EXCEPT !.MetaIsActive = Ptr(FALSE)])] } :
                r \in ghost.returned}

CoreNext ==
    \/ \E e \in Emails, f \in Faults :
            RegisterUserCall(e, "secret", [name |-> "A", role |-> "user"], "s1", f)
    \/ \E e \in Emails, dbErr \in BOOLEAN : FindUserByEmailCall(e, dbErr)
    \/ \E e \in Emails, p \in Pwds, c \in Confs :
            AuthenticateCall(e, p, c.jwtSecret, c.tokenExpiryMin, FALSE)
    \/ \E sess \in CoreSessionInputs, f \in {"none", "marshal", "put"} :
            SaveSessionCall(sess, f)
    \/ \E id \in KnownIds, e \in Emails : FindSessionByIDCall(id, e, FALSE)
    \/ \E e \in Emails, dbErr \in BOOLEAN : FindSessionsCall(e, dbErr)
    \/ \E h \in HeaderChoices, c \in Confs : ValidateTokenCall(h, c.jwtSecret)

CoreSpec == Init /\ [][CoreNext]_vars

-----------------------------------------------------------------------------
(* Two saveSession calls for one key that run at the same time.  A call     *)
(* reads the clock and builds its record (services.go 122-139), and later   *)
(* sends its put (144); the steps of the two calls interleave.  call holds  *)
(* the two calls in flight: each one's position, argument, record and       *)
(* result, and the order of the puts.                                       *)

Procs == {1, 2}

InFlight == call.op = "concurrent" /\ \E p \in Procs : call.procs[p].pc # "done"

\* What two clients send of a session r they were both handed, under r's key
ConcurrentInputs(r) ==
    { r,
      [r EXCEPT !.Name = "n2"],
      [r EXCEPT !.Meta = Ptr([r.Meta[1] EXCEPT !.MetaIsActive = Ptr(FALSE)])] }

\* Both calls are entered, by clients that were just handed the session
BeginConcurrent(s1, s2) ==
    /\ call.op = "saveSession"
    /\ call' = [op |-> "concurrent", key |-> <<s1.ID[1], s1.Email>>,
                procs |-> << [pc |-> "start", input |-> s1, local |-> Nil,
                              res |-> [sess |-> Nil, err |-> ""]],
                             [pc |-> "start", input |-> s2, local |-> Nil,
                              res |-> [sess |-> Nil, err |-> ""]] >>,
                puts |-> <<>>]
    /\ UNCHANGED <<now, users, sessions, uuids, issued, ghost>>

\* Call p reads the clock and stamps its session; the clock may read the same
\* for the other call
Stamp(p, advance) ==
    /\ InFlight
    /\ call.procs[p].pc = "start"
    /\ IF advance THEN ReadClock ELSE UNCHANGED now
    /\ call' = [call EXCEPT
                  !.procs[p].pc = "stamped",
                  !.procs[p].local =
                      saveSession(call.procs[p].input, EmptyTable, uuids, "none", now).sess]
    /\ UNCHANGED <<users, sessions, uuids, issued, ghost>>

\* Call p sends its put and returns
Put(p, dbErr) ==
    /\ InFlight
    /\ call.procs[p].pc = "stamped"
    /\ LET sessMap == MarshalSession(call.procs[p].local[1])
           put == putItem(sessMap, SessionKey(sessMap), sessions, dbErr)
       IN  /\ sessions' = put.table
           /\ call' = [call EXCEPT
                         !.procs[p].pc = "done",
                         !.procs[p].res = IF put.err # ""
                                          THEN [sess |-> Nil, err |-> put.err]
                                          ELSE [sess |-> call.procs[p].local, err |-> ""],
                         !.puts = IF put.err # "" THEN @ ELSE Append(@, p)]
    /\ UNCHANGED <<now, users, uuids, issued, ghost>>

ConcurrentNext ==
    \/ ~InFlight /\ \E e \in Emails :
            SaveSessionCall([ID |-> Nil, Email |-> e, Name |-> "n1",
                             Status |-> Ptr("open"), Meta |-> Nil], "none")
    \/ call.op = "saveSession" /\ \E s1 \in ConcurrentInputs(call.res.sess[1]),
                                       s2 \in ConcurrentInputs(call.res.sess[1]) :
            BeginConcurrent(s1, s2)
    \/ \E p \in Procs, advance \in BOOLEAN : Stamp(p, advance)
    \/ \E p \in Procs, dbErr \in BOOLEAN : Put(p, dbErr)

ConcurrentSpec == Init /\ [][ConcurrentNext]_vars

-----------------------------------------------------------------------------
(* The service as its clients reach it: requests to the resolvers, each     *)
(* with an Authorization header                                             *)

\* The header values of the requests: none, the token the client was issued
\* (with and without the scheme) and that token with altered claims
RequestHeaders ==
    {StrHeader(<<>>)}
    \cup IF issued.done
         THEN { BearerOf(issued.token), StrHeader(issued.token),
                BearerOf(WithClaims(issued.token, [email |-> JStr(OtherEmail(issued.email))])) }
         ELSE {}

\* The SessionInput values of the requests
SessionInputMaps ==
    {[email |-> e, name |-> "n1", status |-> "open"] : e \in Emails}
    \cup {[id |-> k[1], email |-> k[2], name |-> "n2", status |-> "open"] :
            k \in DOMAIN sessions}

RegisterMutation(email, pwd) ==
    LET res == registerUser(email, pwd, "A", "user", users, "s1", "none", now)
    IN  /\ ReadClock
        /\ users' = res.table
        /\ call' = [op |-> "register", email |-> email, at |-> now,
                    res |-> [value |-> res.user, err |-> res.err, panic |-> ""],
                    reads |-> 0, writes |-> res.writes]
        /\ UNCHANGED <<sessions, uuids, issued, ghost>>

AuthenticateMutation(email, pwd, c) ==
    LET res == authenticate(email, pwd, users, c.jwtSecret, c.tokenExpiryMin, FALSE, now)
        success == res.auth # Nil /\ res.auth[1].Success
    IN  /\ IF success THEN ReadClock ELSE UNCHANGED now
        /\ issued' = IF success
                     THEN [done |-> TRUE, by |-> "buildToken", email |-> email,
                           secret |-> c.jwtSecret, ttl |-> c.tokenExpiryMin, at |-> now,
                           token |-> res.auth[1].Token, expiry |-> res.auth[1].ExpiresAt]
                     ELSE issued
        /\ call' = [op |-> "authenticate", email |-> email, conf |-> c, at |-> now,
                    res |-> [value |-> res.auth, err |-> "", panic |-> res.panic],
                    reads |-> res.reads, writes |-> 0]
        /\ UNCHANGED <<users, sessions, uuids, ghost>>

GetAuthUserQuery(header, c, dbErr) ==
    LET res == getAuthUser(header, c, users, dbErr, now)
    IN  /\ call' = [op |-> "getAuthUser", header |-> header, conf |-> c, at |-> now,
                    res |-> [value |-> res.value, err |-> res.err, panic |-> res.panic],
                    reads |-> res.reads, writes |-> res.writes]
        /\ UNCHANGED <<now, users, sessions, uuids, issued, ghost>>

GetSessionQuery(header, id, c, dbErr) ==
    LET res == getSession(header, id, c, sessions, dbErr, now)
    IN  /\ call' = [op |-> "getSession", header |-> header, conf |-> c, at |-> now, id |-> id,
                    res |-> [value |-> res.value, err |-> res.err, panic |-> res.panic],
                    reads |-> res.reads, writes |-> res.writes]
        /\ UNCHANGED <<now, users, sessions, uuids, issued, ghost>>

GetSessionsQuery(header, c, dbErr) ==
    LET res == getSessions(header, c, sessions, dbErr, now)
    IN  /\ call' = [op |-> "getSessions", header |-> header, conf |-> c, at |-> now,
                    res |-> [value |-> res.value, err |-> res.err, panic |-> res.panic],
                    reads |-> res.reads, writes |-> res.writes]
        /\ UNCHANGED <<now, users, sessions, uuids, issued, ghost>>

SaveSessionMutation(header, sessMap, c, fault) ==
    LET res == saveSessionMutation(header, sessMap, c, sessions, uuids, fault, now)
    IN  /\ ReadClock
        /\ sessions' = res.table
        /\ uuids' = IF res.drew THEN uuids + 1 ELSE uuids
        /\ call' = [op |-> "saveSession", header |-> header, conf |-> c, at |-> now,
                    input |-> sessMap,
                    res |-> [value |-> res.value, err |-> res.err, panic |-> res.panic],
                    reads |-> res.reads, writes |-> res.writes]
        /\ UNCHANGED <<users, issued, ghost>>

ApiNext ==
    \/ Tick
    \/ \E e \in Emails, p \in Pwds : RegisterMutation(e, p)
    \/ \E e \in Emails, p \in Pwds, c \in Confs : AuthenticateMutation(e, p, c)
    \/ \E h \in RequestHeaders, c \in Confs, dbErr \in BOOLEAN : GetAuthUserQuery(h, c, dbErr)
    \/ \E h \in RequestHeaders, id \in KnownIds, c \in Confs, dbErr \in BOOLEAN :
            GetSessionQuery(h, id, c, dbErr)
    \/ \E h \in RequestHeaders, c \in Confs, dbErr \in BOOLEAN : GetSessionsQuery(h, c, dbErr)
    \/ \E h \in RequestHeaders, m \in SessionInputMaps, c \in Confs, f \in {"none", "put"} :
            SaveSessionMutation(h, m, c, f)

ApiSpec == Init /\ [][ApiNext]_vars

-----------------------------------------------------------------------------
(* main.go: Handler.  A request body is empty, text that is not JSON, the   *)
(* JSON null, or the JSON of params with a query; a query names one root    *)
(* field with its arguments, selecting fields that are set in the result.   *)

\* json.Marshal of a value, and the apiResponse that ToJSON serialises
JSON(v) == [json |-> v]
ApiResponseJSON(receivedAt, errors, message) ==
    JSON([received_at |-> receivedAt, errors |-> errors, message |-> message])

\* The errors of a resolver as graphql.Do reports them: the error it
\* returned, or the panic that the executor recovered
FieldErrors(r) ==
    IF r.panic # "" THEN <<r.panic>> ELSE IF r.err # "" THEN <<r.err>> ELSE <<>>

\* The element of a set of one element
Only(S) == CHOOSE x \in S : TRUE

\* The result of graphql.Do for root field q.field whose resolver gave r
\* (value, err, panic), with what the resolver did (eff)
Result(q, r, eff) ==
    [eff |-> eff,
     Data |-> IF FieldErrors(r) # <<>> THEN Nil ELSE Ptr([field |-> q.field, value |-> r.value]),
     Errors |-> FieldErrors(r)]

\* graphql.Do(params) for a query q: the result's Data and Errors, and what
\* the resolver did to the tables (changed tells whether it read the clock)
Do(q, header, c, usersTable, sessionsTable, uuidCount, t) ==
    LET same == [users |-> usersTable, sessions |-> sessionsTable, drew |-> FALSE,
                 changed |-> FALSE, auth |-> Nil]
    IN  CASE q.field = "hello" ->
                Result(q, [value |-> "World", err |-> "", panic |-> ""], same)
          [] q.field = "getAuthUser" ->
                Only({Result(q, r, same) :
                        r \in {getAuthUser(header, c, usersTable, FALSE, t)}})
          [] q.field = "getSession" ->
                Only({Result(q, r, same) :
                        r \in {getSession(header, q.id, c, sessionsTable, FALSE, t)}})
          [] q.field = "getSessions" ->
                Only({Result(q, r, same) :
                        r \in {getSessions(header, c, sessionsTable, FALSE, t)}})
          [] q.field = "register" ->
                Only({Result(q, [value |-> r.user, err |-> r.err, panic |-> ""],
                             [same EXCEPT !.users = r.table, !.changed = TRUE]) :
                        r \in {registerUser(q.email, q.pwd, "A", "user", usersTable,
                                            "s1", "none", t)}})
          [] q.field = "authenticate" ->
                Only({Result(q, [value |-> r.auth, err |-> "", panic |-> r.panic],
                             [same EXCEPT !.auth = r.auth,
                                          !.changed = r.auth # Nil /\ r.auth[1].Success]) :
                        r \in {authenticate(q.email, q.pwd, usersTable, c.jwtSecret,
                                            c.tokenExpiryMin, FALSE, t)}})
          [] q.field = "saveSession" ->
                Only({Result(q, r, [same EXCEPT !.sessions = r.table, !.drew = r.drew,
                                                !.changed = TRUE]) :
                        r \in {saveSessionMutation(header, q.sess, c, sessionsTable,
                                                   uuidCount, "none", t)}})
          [] OTHER ->
                \* a field that the schema does not have
                [eff |-> same, Data |-> Nil,
                 Errors |-> <<"Cannot query field on type RootQuery">>]

\* Handler without the response.HasErrors() check
Handler_NoErrorsCheck(request, c, initErr, marshalErr, usersTable, sessionsTable, uuidCount, t) ==
    LET none == [users |-> usersTable, sessions |-> sessionsTable, drew |-> FALSE,
                 changed |-> FALSE, auth |-> Nil]
        failed(errors, message) ==
            [StatusCode |-> 500, Body |-> ApiResponseJSON(t, errors, message),
             Headers |-> <<>>, err |-> Nil, panic |-> ""]
    IN  IF request.Body.kind = "empty"
        THEN [resp |-> failed("Request body is null", "The Request body is null"),
              gql |-> Nil, eff |-> none]
        ELSE IF initErr
        THEN [resp |-> failed("init", "error occurred trying to initialize"),
              gql |-> Nil, eff |-> none]
        ELSE IF request.Body.kind = "text"
        THEN [resp |-> failed("invalid character", "error deserializing the request body"),
              gql |-> Nil, eff |-> none]
        ELSE IF request.Body.kind = "null"
        THEN [resp |-> [StatusCode |-> 0, Body |-> <<>>, Headers |-> <<>>, err |-> Nil,
                        panic |-> NilDeref],
              gql |-> Nil, eff |-> none]
        ELSE Only({
                [gql |-> Ptr([Data |-> response.Data, Errors |-> response.Errors]),
                 eff |-> response.eff,
                 resp |-> IF marshalErr
                          THEN failed("json: unsupported value", "error marshalling the response")
                          ELSE [StatusCode |-> 200, Body |-> JSON(response.Data),
                                Headers |-> [Content_Type |-> "application/json"],
                                err |-> Nil, panic |-> ""]] :
                response \in {Do(request.Body.query, StrHeader(request.Authorization), c,
                                 usersTable, sessionsTable, uuidCount, t)}})

\* Handler(ctx, request) called at time t.  c is what conf.init() reads from
\* the environment, initErr whether it fails, marshalErr whether
\* json.Marshal(response.Data) fails.  resp is the response with the Go
\* error (err); a panic leaves no response.  gql is the result of graphql.Do
\* when it was reached, eff what the resolver did.
Handler(request, c, initErr, marshalErr, usersTable, sessionsTable, uuidCount, t) ==
    LET none == [users |-> usersTable, sessions |-> sessionsTable, drew |-> FALSE,
                 changed |-> FALSE, auth |-> Nil]
        failed(errors, message) ==
            [StatusCode |-> 500, Body |-> ApiResponseJSON(t, errors, message),
             Headers |-> <<>>, err |-> Nil, panic |-> ""]
    IN  IF request.Body.kind = "empty"
        THEN [resp |-> failed("Request body is null", "The Request body is null"),
              gql |-> Nil, eff |-> none]
        ELSE IF initErr
        THEN [resp |-> failed("init", "error occurred trying to initialize"),
              gql |-> Nil, eff |-> none]
        ELSE IF request.Body.kind = "text"
        THEN [resp |-> failed("invalid character", "error deserializing the request body"),
              gql |-> Nil, eff |-> none]
        ELSE IF request.Body.kind = "null"
        THEN \* json.Unmarshal of null into &reqParams sets reqParams to nil,
             \* and reqParams.Query dereferences it
             [resp |-> [StatusCode |-> 0, Body |-> <<>>, Headers |-> <<>>, err |-> Nil,
                        panic |-> NilDeref],
              gql |-> Nil, eff |-> none]
        ELSE Only({
                [gql |-> Ptr([Data |-> response.Data, Errors |-> response.Errors]),
                 eff |-> response.eff,
                 resp |-> IF response.Errors # <<>>
                          THEN failed(response.Errors, "error performing the graphql query")
                          ELSE IF marshalErr
                          THEN failed("json: unsupported value", "error marshalling the response")
                          ELSE [StatusCode |-> 200, Body |-> JSON(response.Data),
                                Headers |-> [Content_Type |-> "application/json"],
                                err |-> Nil, panic |-> ""]] :
                response \in {Do(request.Body.query, StrHeader(request.Authorization), c,
                                 usersTable, sessionsTable, uuidCount, t)}})

\* The queries of the requests: those whose resolvers look at the
\* Authorization header, and the others
AuthorizedQueries ==
    {[field |-> "getAuthUser"], [field |-> "getSessions"]}
    \cup {[field |-> "getSession", id |-> id] : id \in KnownIds}

OpenQueries ==
    {[field |-> "hello"], [field |-> "goodbye"]}
    \cup {[field |-> "saveSession", sess |-> m] : m \in SessionInputMaps}
    \cup {[field |-> "register", email |-> e, pwd |-> "secret"] : e \in Emails}
    \cup {[field |-> "authenticate", email |-> e, pwd |-> p] : e \in Emails, p \in Pwds}

\* The environment of the function as template.yml sets it
DeployedConf == [jwtSecret |-> <<"k1">>, tokenExpiryMin |-> MaxTTL]

\* What fails in a call, as <<initErr, marshalErr>>: nothing, conf.init(), or
\* json.Marshal(response.Data)
HandlerFaults == {<<FALSE, FALSE>>, <<TRUE, FALSE>>, <<FALSE, TRUE>>}

\* A request reaches Handler; the client keeps the token of a successful
\* authentication
HandlerCall(body, header, c, initErr, marshalErr) ==
    \E request \in {[Body |-> body, Authorization |-> header.s]} :
    \E res \in {Handler(request, c, initErr, marshalErr, users, sessions, uuids, now)} :
    \E a \in {res.eff.auth} :
        /\ IF res.eff.changed THEN ReadClock ELSE UNCHANGED now
        /\ users' = res.eff.users
        /\ sessions' = res.eff.sessions
        /\ uuids' = IF res.eff.drew THEN uuids + 1 ELSE uuids
        /\ issued' = IF a # Nil /\ a[1].Success
                     THEN [done |-> TRUE, by |-> "buildToken", email |-> body.query.email,
                           secret |-> c.jwtSecret, ttl |-> c.tokenExpiryMin, at |-> now,
                           token |-> a[1].Token, expiry |-> a[1].ExpiresAt]
                     ELSE issued
        /\ call' = [op |-> "Handler", request |-> request, conf |-> c, initErr |-> initErr,
                    marshalErr |-> marshalErr, at |-> now, res |-> res.resp, gql |-> res.gql]
        /\ UNCHANGED ghost

HandlerNext ==
    \/ \E kind \in {"empty", "text", "null"}, initErr \in BOOLEAN :
            HandlerCall([kind |-> kind], StrHeader(<<>>), DeployedConf, initErr, FALSE)
    \/ \E q \in AuthorizedQueries, header \in RequestHeaders, f \in HandlerFaults :
            HandlerCall([kind |-> "params", query |-> q], header, DeployedConf, f[1], f[2])
    \/ \E q \in OpenQueries, f \in HandlerFaults :
            HandlerCall([kind |-> "params", query |-> q], StrHeader(<<>>), DeployedConf,
                        f[1], f[2])

HandlerSpec == Init /\ [][HandlerNext]_vars

-----------------------------------------------------------------------------
(* Claims about the token service, checked under TokenSpec *)

ValidatedIssued ==
    /\ call.op = "validateToken"
    /\ issued.done
    /\ call.header = BearerOf(issued.token)

\* The error class BadSignature of the taxonomy: jwt.Parse rejected the token
BadSignature(res) == res.err = "signature is invalid" /\ res.email = Nil

\* C2: validateToken applied to "Bearer " + the token buildToken(c, s, ttl)
\* returned, with the same secret s, returns c and no error.
C2_RoundTrip ==
    (ValidatedIssued /\ issued.by = "buildToken" /\ call.secret = issued.secret)
        => call.res = [email |-> Ptr(issued.email), err |-> ""]

C2_Witness ==
    /\ ValidatedIssued /\ issued.by = "buildToken" /\ call.secret = issued.secret
    /\ issued.email = "b@x.com" /\ issued.secret = <<"k2">> /\ issued.ttl = 1
    /\ call.res.email = Ptr("b@x.com")

\* C3: a token signed with a secret other than the one validateToken is given,
\* and a token whose claims or signature segment was altered after signing, is
\* rejected with the signature error and yields no identity claim.
C3_BadSignature ==
    /\ (ValidatedIssued /\ call.secret # issued.secret) => BadSignature(call.res)
    /\ ( /\ call.op = "validateToken"
         /\ issued.done
         /\ call.secret = issued.secret
         /\ \E m \in ClaimsAltered(issued.token) \cup SigAltered(issued.token) :
                call.header = BearerOf(m) )
       => BadSignature(call.res)

C3_Witness ==
    /\ call.op = "validateToken"
    /\ issued.done /\ issued.by = "buildToken"
    /\ call.secret = issued.secret
    /\ call.header = BearerOf(WithClaims(issued.token, [email |-> JStr("b@x.com")]))
    /\ issued.email = "a@x.com"
    /\ BadSignature(call.res)

\* C5: a token issued by buildToken and presented to validateToken after the
\* expiry instant buildToken returned is rejected with an error.
C5_ExpiredRejected ==
    ( /\ ValidatedIssued /\ issued.by = "buildToken" /\ call.secret = issued.secret
      /\ call.at > issued.expiry )
        => (call.res.err # "" /\ call.res.email = Nil)

\* C6: a correctly signed Bearer token whose claims decode to a string map
\* without an "email" key is rejected with the invalid-token error and yields
\* no identity.
C6_NoEmailRejected ==
    ( /\ ValidatedIssued /\ issued.by = "other" /\ call.secret = issued.secret
      /\ ~DecodeFails(issued.claims)
      /\ "email" \notin DOMAIN issued.claims )
        => call.res = [email |-> Nil, err |-> "invalid authorization token"]

\* The errors of validateToken's first two checks
MissingToken == "no valid Authorization token in request"
WrongScheme == "authorization token is not valid Bearer token"

\* C17: validateToken returns the missing-token error for a nil and for an
\* empty header value, and for no header value that is present and not
\* empty: a malformed header gets another error.
C17_MissingToken ==
    call.op = "validateToken" =>
        /\ (call.header.isNil \/ call.header.s = <<>>)
                <=> (call.res.err = MissingToken)
        /\ call.res.err = MissingToken => call.res.email = Nil

C17_Witness ==
    /\ call.op = "validateToken"
    /\ call.header = StrHeader(<<>>)
    /\ call.res = [email |-> Nil, err |-> MissingToken]

\* C18: every header value that is not empty and does not start with
\* "Bearer " is rejected with the wrong-scheme error, whatever follows, also
\* a token that is validly signed with the secret.
C18_WrongSchemeFirst ==
    ( /\ call.op = "validateToken"
      /\ ~call.header.isNil /\ call.header.s # <<>>
      /\ ~HasPrefix(call.header.s, bearerTokenKey) )
        => call.res = [email |-> Nil, err |-> WrongScheme]

C18_Witness ==
    /\ call.op = "validateToken"
    /\ issued.done /\ issued.by = "buildToken" /\ issued.secret = call.secret
    /\ call.header = StrHeader(issued.token)
    /\ call.res.err = WrongScheme

\* C19: validateToken succeeds only for a header value that is "Bearer "
\* followed by a token in which "Bearer " does not occur again.
C19_ExactlyBearerToken ==
    (call.op = "validateToken" /\ call.res.err = "") =>
        /\ HasPrefix(call.header.s, bearerTokenKey)
        /\ LET rest == SubSeq(call.header.s, Len(bearerTokenKey) + 1, Len(call.header.s))
           IN  RemoveAll(rest, bearerTokenKey) = rest

\* C20: buildToken called with an empty secret fails with a signing error
\* and returns no token and no expiry.
C20_EmptySecretSigningError ==
    (call.op = "buildToken" /\ issued.secret = <<>>) =>
        /\ call.res.err # ""
        /\ call.res.token = Nil
        /\ call.res.expiry = Nil

-----------------------------------------------------------------------------
(* Claims about the user store and authentication, checked under UsersSpec *)

AuthOf(c) == c.res.auth[1]

\* C1: authenticate for an email without a record in the users table (the
\* backend answers with zero items and no transport error) returns an auth
\* result with Success false and the no-record message, and does not abort.
C1_NotFoundFailure ==
    (call.op = "authenticate" /\ ~call.dbErr /\ call.email \notin DOMAIN users)
        => /\ call.res.panic = ""
           /\ call.res.auth = Ptr([ZeroAuth EXCEPT !.Message = NotFoundMessage])

\* C7: registerUser writes unconditionally.  A registration, also of an email
\* that is registered already, returns success and leaves one record for the
\* email, with the hash of this call's password and this call's name, role
\* and metadata; after a second registration authenticate succeeds with the
\* second password and fails with the mismatch message for the first.
C7_Overwrite ==
    /\ (call.op = "registerUser" /\ call.fault = "none")
         => /\ call.res.err = "" /\ call.res.user # Nil
            /\ call.email \in DOMAIN users
            /\ users[call.email] = MarshalUser(call.res.user[1])
            /\ users[call.email].email = call.email
            /\ verifyPwd(users[call.email].pwd, call.pwd)
            /\ users[call.email].name = call.name
            /\ users[call.email].role = call.role
            /\ users[call.email].meta =
                  [meta__created_at |-> Ptr(call.at), meta__updated_at |-> Ptr(call.at),
                   meta__is_active |-> Ptr(TRUE)]
    /\ (call.op = "authenticate" /\ ~call.dbErr /\ RegOf(call.email).count = 2)
         => /\ call.res.panic = ""
            /\ AuthOf(call).Success = (call.pwd = RegOf(call.email).lastPwd)
            /\ ~AuthOf(call).Success => AuthOf(call).Message = MismatchMessage

C7_Witness ==
    /\ call.op = "authenticate" /\ ~call.dbErr
    /\ RegOf(call.email).count = 2
    /\ RegOf(call.email).prevPwd # RegOf(call.email).lastPwd
    /\ call.pwd = RegOf(call.email).prevPwd
    /\ users[call.email].name = "B"
    /\ AuthOf(call).Message = MismatchMessage

\* C8: after a successful registerUser(e, p, ...) and no later write to the
\* record, authenticate(e, p) returns Success with a non-empty token, an
\* expiry and the user record, and authenticate(e, q) for q # p returns
\* Success false with the mismatch message and no token.
C8_AuthAfterRegister ==
    (call.op = "authenticate" /\ ~call.dbErr /\ RegOf(call.email).count >= 1)
        => /\ call.res.panic = "" /\ call.res.auth # Nil
           /\ IF call.pwd = RegOf(call.email).lastPwd
              THEN /\ AuthOf(call).Success
                   /\ AuthOf(call).Token # <<>>
                   /\ AuthOf(call).ExpiresAt = call.at + call.ttl
                   /\ AuthOf(call).User = Ptr(UnmarshalUser(users[call.email]))
                   /\ AuthOf(call).Message = ""
              ELSE AuthOf(call) = [ZeroAuth EXCEPT !.Message = MismatchMessage]

C8_Witness ==
    /\ call.op = "authenticate" /\ ~call.dbErr
    /\ RegOf(call.email).count = 1
    /\ call.pwd = RegOf(call.email).lastPwd
    /\ AuthOf(call).Success /\ AuthOf(call).Token # <<>>

\* C21: every auth result that authenticate returns has, with Success true,
\* a token that is not empty, an expiry that is set and no message, and with
\* Success false a message that is not empty, no token and no expiry.
C21_AuthShape ==
    (call.op = "authenticate" /\ call.res.auth # Nil) =>
        LET a == AuthOf(call)
        IN  /\ a.Success => (a.Token # <<>> /\ a.ExpiresAt # 0 /\ a.Message = "")
            /\ ~a.Success => (a.Message # "" /\ a.Token = <<>> /\ a.ExpiresAt = 0)

C21_Witness ==
    /\ call.op = "authenticate"
    /\ call.email \in DOMAIN users
    /\ call.res.auth = Ptr([ZeroAuth EXCEPT !.Message = MismatchMessage])

\* C14: findUserByEmail for an email without a record, when the backend
\* answers with zero items and no transport error, returns a not-found
\* error and no user; it does not return (nil, nil) and does not abort.
C14_UserNotFoundError ==
    (call.op = "findUserByEmail" /\ ~call.dbErr /\ call.email \notin DOMAIN users)
        => /\ call.res.panic = ""
           /\ call.res.err # ""
           /\ call.res.user = Nil

-----------------------------------------------------------------------------
(* Claims about the session store, checked under SessionsSpec *)

InputKey(c) == <<c.input.ID[1], c.input.Email>>

\* The call at hand is a saveSession that was given, unchanged, the session
\* an earlier saveSession without identifier handed back
ResavedAsReturned ==
    /\ call.op = "saveSession"
    /\ call.fault \in {"none", "uuid"}
    /\ call.input.ID # Nil
    /\ InputKey(call) \in DOMAIN ghost.minted
    /\ ghost.minted[InputKey(call)].sess = call.input

\* C9: when saveSession is called with no identifier and then again with the
\* session it returned, the record stored by the second call has the
\* created-at stamped by the first call and an updated-at strictly greater
\* than the one the first call stored.
C9_ResaveKeepsCreatedAt ==
    ResavedAsReturned =>
        LET k == InputKey(call)
            first == ghost.minted[k].at
        IN  /\ call.res.panic = "" /\ call.res.err = ""
            /\ k \in DOMAIN sessions
            /\ sessions[k].meta # Nil
            /\ sessions[k].meta[1].meta__created_at = Ptr(first)
            /\ sessions[k].meta[1].meta__updated_at # Nil
            /\ sessions[k].meta[1].meta__updated_at[1] > first
            /\ sessions[k] = MarshalSession(call.res.sess[1])

C9_Witness ==
    /\ ResavedAsReturned
    /\ sessions[InputKey(call)].meta[1].meta__created_at = Ptr(1)
    /\ sessions[InputKey(call)].meta[1].meta__updated_at = Ptr(3)

\* C10: in every reachable state the created-at of every stored session is
\* the instant stamped by the saveSession call that generated its identifier,
\* whatever metadata later saveSession calls were given.
C10_CreatedAtImmutable ==
    \A k \in DOMAIN sessions \cap DOMAIN ghost.minted :
        /\ sessions[k].meta # Nil
        /\ sessions[k].meta[1].meta__created_at = Ptr(ghost.minted[k].at)

\* C11: every session identifier in the table belongs to one owner.
C11_OneOwnerPerId ==
    \A k1 \in DOMAIN sessions, k2 \in DOMAIN sessions :
        k1[1] = k2[1] => k1[2] = k2[2]

\* The identifiers in the table and the identifiers handed back so far
UsedIds == {k[1] : k \in DOMAIN sessions} \cup {r.ID[1] : r \in ghost.returned}

\* C12: a saveSession call without identifier whose marshalling and put do
\* not fail, also one whose UUID generator fails, returns a session with an
\* identifier that is not empty and that neither is in the table nor was
\* returned before the call, and stores it with created-at = updated-at =
\* the time of the call and is-active true.
C12_FreshIdentifier ==
    [][ ( /\ now' # now
          /\ call'.op = "saveSession"
          /\ call'.input.ID = Nil
          /\ call'.fault \in {"none", "uuid"} )
        => /\ call'.res.err = "" /\ call'.res.sess # Nil
           /\ LET r == call'.res.sess[1]
                  k == <<r.ID[1], r.Email>>
              IN  /\ r.ID[1] # <<>>
                  /\ r.ID[1] \notin UsedIds
                  /\ k \in DOMAIN sessions'
                  /\ sessions'[k].meta =
                        Ptr([meta__created_at |-> Ptr(call'.at),
                             meta__updated_at |-> Ptr(call'.at),
                             meta__is_active |-> Ptr(TRUE)]) ]_vars

\* C15: findSessionByID for a key without a record returns an error.
C15_SessionNotFoundError ==
    ( /\ call.op = "findSessionByID"
      /\ ~call.dbErr
      /\ <<call.id, call.email>> \notin DOMAIN sessions )
        => (call.res.sess = Nil /\ call.res.err # "")

\* The stored sessions of an owner, decoded
SessionsOf(email) ==
    {Ptr(UnmarshalSession(sessions[k])) : k \in {x \in DOMAIN sessions : x[2] = email}}

\* C16: findSessions(email), when the backend reports no transport error,
\* returns without error a sequence that holds each stored session of the
\* owner once and nothing else; it is empty for an owner without sessions.
C16_ExactlyOwnersSessions ==
    (call.op = "findSessions" /\ ~call.dbErr) =>
        /\ call.res.err = ""
        /\ Len(call.res.sessions) = Cardinality(SessionsOf(call.email))
        /\ {call.res.sessions[i] : i \in 1..Len(call.res.sessions)} = SessionsOf(call.email)

-----------------------------------------------------------------------------
(* Claims about the resolvers, checked under ApiSpec *)

AuthorizedOps == {"getAuthUser", "getSession", "getSessions", "saveSession"}

\* C4: getAuthUser, getSession, getSessions and saveSession run validateToken
\* on the request's Authorization header first and touch a table only if it
\* succeeded: a request with a missing or invalid token causes no read and
\* no write.
C4_NoStoreAccessWithoutToken ==
    ( /\ call.op \in AuthorizedOps
      /\ validateToken(call.header, call.conf.jwtSecret, call.at).err # "" )
        => (call.reads = 0 /\ call.writes = 0)

\* The records of a table that belong to an owner
OwnedBy(table, email) ==
    [k \in {x \in DOMAIN table : x[2] = email} |-> table[k]]

\* What a resolver hands back, without the counts of its table requests
Answer(r) == [value |-> r.value, err |-> r.err, panic |-> r.panic]

\* C25: getSession and getSessions return only sessions whose owner is the
\* email of the request's validated token, and their answer is the one they
\* give when the table holds the sessions of that owner alone: sessions of
\* other owners do not show in it, whatever id the caller asks for.
C25_OwnerIsolation ==
    call.op \in {"getSession", "getSessions"} =>
        LET valid == validateToken(call.header, call.conf.jwtSecret, call.at)
        IN  IF valid.err # ""
            THEN call.res.value = <<>> /\ call.res.err = valid.err
            ELSE LET own == OwnedBy(sessions, valid.email[1])
                 IN  /\ call.op = "getSession" =>
                            /\ call.res.value # Nil => call.res.value[1].Email = valid.email[1]
                            /\ call.res.err # "RequestError" =>
                                    call.res = Answer(getSession(call.header, call.id, call.conf,
                                                                 own, FALSE, call.at))
                     /\ call.op = "getSessions" =>
                            /\ \A i \in 1..Len(call.res.value) :
                                    call.res.value[i] # Nil =>
                                        call.res.value[i][1].Email = valid.email[1]
                            /\ call.res.err # "RequestError" =>
                                    call.res = Answer(getSessions(call.header, call.conf,
                                                                  own, FALSE, call.at))

\* A caller with a valid token asked for the id of another owner's session
C25_Witness ==
    /\ call.op = "getSession"
    /\ validateToken(call.header, call.conf.jwtSecret, call.at).err = ""
    /\ \E k \in DOMAIN sessions :
            /\ k[1] = call.id
            /\ k[2] # validateToken(call.header, call.conf.jwtSecret, call.at).email[1]
    /\ call.res = [value |-> Nil, err |-> "", panic |-> ""]

\* C13: the saveSession mutation with an input that carries the identifier
\* of a stored session completes: it keeps the identifier, stores the record
\* with updated-at = the time of the call and is-active true, and returns
\* the stored session (unless the table reports an error).
C13_MutationWithIdCompletes ==
    ( /\ call.op = "saveSession"
      /\ "id" \in DOMAIN call.input
      /\ call.res.err = "" )
        => /\ call.res.panic = ""
           /\ call.res.value # Nil
           /\ call.res.value[1].ID = Ptr(call.input.id)
           /\ LET k == <<call.input.id, call.input.email>>
              IN  /\ k \in DOMAIN sessions
                  /\ sessions[k] = MarshalSession(call.res.value[1])
                  /\ sessions[k].meta # Nil
                  /\ sessions[k].meta[1].meta__updated_at = Ptr(call.at)
                  /\ sessions[k].meta[1].meta__is_active = Ptr(TRUE)

-----------------------------------------------------------------------------
(* Claims about the core as a whole, checked under CoreSpec *)

\* C22: every record in the users table and in the sessions table has
\* is-active true, whatever metadata the callers of saveSession supplied.
C22_AlwaysActive ==
    /\ \A e \in DOMAIN users : users[e].meta.meta__is_active = Ptr(TRUE)
    /\ \A k \in DOMAIN sessions :
            /\ sessions[k].meta # Nil
            /\ sessions[k].meta[1].meta__is_active = Ptr(TRUE)

C22_Witness ==
    /\ DOMAIN users # {}
    /\ call.op = "saveSession"
    /\ call.input.ID # Nil /\ call.input.Meta # Nil
    /\ call.input.Meta[1].MetaIsActive = Ptr(FALSE)
    /\ call.res.sess # Nil
    /\ InputKey(call) \in DOMAIN sessions
    /\ sessions[InputKey(call)] = MarshalSession(call.res.sess[1])

\* The keys under which two tables differ
Changed(t1, t2) ==
    {k \in DOMAIN t1 \cup DOMAIN t2 :
        k \notin DOMAIN t1 \/ k \notin DOMAIN t2 \/ t1[k] # t2[k]}

ReadOnlyOps ==
    {"findUserByEmail", "findSessionByID", "findSessions", "validateToken", "authenticate"}

\* C26: findUserByEmail, findSessionByID, findSessions, validateToken and
\* authenticate change neither table; registerUser changes only the users
\* table, in at most the record of its email, and nothing when hashing or
\* marshalling fails; saveSession changes only the sessions table, in at
\* most one record, and nothing when marshalling fails.
C26_FrameEffects ==
    [][ /\ call'.op \in ReadOnlyOps =>
                /\ users' = users /\ sessions' = sessions
                /\ call'.op # "validateToken" => call'.writes = 0
        /\ call'.op = "registerUser" =>
                /\ sessions' = sessions
                /\ Changed(users, users') \subseteq {call'.email}
                /\ call'.writes <= 1
                /\ call'.fault \in {"hash", "marshal"} =>
                        (users' = users /\ call'.writes = 0)
        /\ call'.op = "saveSession" =>
                /\ users' = users
                /\ Cardinality(Changed(sessions, sessions')) <= 1
                /\ call'.writes <= 1
                /\ call'.fault = "marshal" =>
                        (sessions' = sessions /\ call'.writes = 0) ]_vars

C26_Witness ==
    /\ DOMAIN users # {}
    /\ call.op = "saveSession"
    /\ call.fault = "marshal"
    /\ call.input.ID # Nil /\ call.input.Meta # Nil
    /\ InputKey(call) \in DOMAIN sessions
    /\ sessions[InputKey(call)].name # call.input.Name

-----------------------------------------------------------------------------
(* Claims about concurrent saves, checked under ConcurrentSpec *)

BothReturned == call.op = "concurrent" /\ \A p \in Procs : call.procs[p].pc = "done"

\* C23: when two saveSession calls for one key ran at the same time and both
\* have returned, the record under the key is the complete record of the
\* call whose put came last, and, unless the table reported an error to
\* one of them, both calls returned their session with success.
C23_LastWriteWins ==
    BothReturned =>
        /\ call.puts # <<>> =>
                /\ call.key \in DOMAIN sessions
                /\ sessions[call.key] =
                        MarshalSession(call.procs[call.puts[Len(call.puts)]].local[1])
        /\ (\A p \in Procs : call.procs[p].res.err # "RequestError") =>
                /\ Len(call.puts) = 2
                /\ \A p \in Procs :
                        /\ call.procs[p].res.err = ""
                        /\ call.procs[p].res.sess = call.procs[p].local
                        /\ call.procs[p].res.sess # Nil

C23_Witness ==
    /\ BothReturned
    /\ call.puts = <<2, 1>>
    /\ call.procs[1].local # call.procs[2].local
    /\ call.procs[1].local[1].Name # call.procs[2].local[1].Name
    /\ sessions[call.key] = MarshalSession(call.procs[1].local[1])

-----------------------------------------------------------------------------
(* Claims about Handler, checked under HandlerSpec *)

\* The request's body holds a query and graphql.Do reported no error for it
ExecutedWithoutErrors ==
    /\ call.request.Body.kind = "params"
    /\ ~call.initErr
    /\ call.gql # Nil /\ call.gql[1].Errors = <<>>

\* C24: Handler returns no Go error.  For a body with a query that executes
\* without GraphQL errors it returns status 200, the JSON of the result's
\* data and the header Content-Type: application/json ({hello} gives
\* {"hello": "World"}); for an empty body, a failed init, a body that does
\* not parse and a query with GraphQL errors it returns status 500 with an
\* apiResponse as body.
C24_HandlerResponses ==
    call.op = "Handler" =>
        /\ call.res.err = Nil
        /\ call.request.Body.kind # "null" => call.res.panic = ""
        /\ (ExecutedWithoutErrors /\ ~call.marshalErr) =>
                /\ call.res.StatusCode = 200
                /\ call.res.Body = JSON(call.gql[1].Data)
                /\ call.res.Headers = [Content_Type |-> "application/json"]
                /\ call.request.Body.query.field = "hello" =>
                        call.res.Body = JSON(Ptr([field |-> "hello", value |-> "World"]))
        /\ ( \/ call.request.Body.kind \in {"empty", "text"}
             \/ call.initErr
             \/ call.gql # Nil /\ call.gql[1].Errors # <<>> ) =>
                /\ call.res.StatusCode = 500
                /\ call.res.Headers = <<>>
                /\ \E e \in {call.res.Body.json.errors}, m \in {call.res.Body.json.message} :
                        call.res.Body = ApiResponseJSON(call.at, e, m)

\* A query whose resolver failed after the tables were filled
C24_Witness ==
    /\ call.op = "Handler"
    /\ DOMAIN users # {} /\ DOMAIN sessions # {}
    /\ call.request.Body.kind = "params"
    /\ call.request.Body.query.field = "getAuthUser"
    /\ call.gql # Nil /\ call.gql[1].Errors = <<MissingToken>>
    /\ call.res.StatusCode = 500

====
